---- MODULE Spec2Model ----
(***************************************************************************)
(* A model of iporsut/gosolid.                                             *)
(*                                                                         *)
(*  - the CRUD service of part_001: the global map inmemoryPostDB, the     *)
(*    counter idPostCounter, the mutex idPostMutex, the five DB methods    *)
(*    and the five gin handlers.  Every handler is a process that moves    *)
(*    from one access of the shared globals to the next; what a handler    *)
(*    does between two accesses (parsing the :id parameter, binding the    *)
(*    JSON body, building the response) touches nothing shared and is      *)
(*    part of the step of the access before or after it.                   *)
(*  - the two variants of PostHandler.UpdateHandler (part_000 and lsp.go), *)
(*    one loop iteration per step.                                         *)
(*                                                                         *)
(* SpecSeq runs the handlers one at a time, SpecConc interleaves them,     *)
(* SpecNotify runs the notifier fan-out.                                   *)
(***************************************************************************)
EXTENDS Integers, Sequences, FiniteSets, TLC

\* ------------------------------------------------------------------ bounds

\* The number of posts ever created (the cap on idPostCounter).
MaxPosts == 2

\* The number of requests that can be in flight at once.
NumProcs == 2

\* The number of notifiers registered with NewPostHandler.
MaxNotifiers == 2

Procs == 1..NumProcs

\* ------------------------------------------------------------- HTTP status

StatusOK == 200
StatusNoContent == 204
StatusBadRequest == 400
StatusNotFound == 404

\* ------------------------------------------------------------------ values

\* Post{}: Go's zero value of the struct.
ZeroPost == [ID |-> 0, Title |-> "", Body |-> ""]

\* A JSON request body as it arrives: malformed text, or an object whose
\* "title" and "body" members are each a string or absent.
Absent == "<absent>"

Malformed == [wellformed |-> FALSE, title |-> Absent, body |-> Absent]

JSONBodies(strings) ==
    {Malformed} \cup
    {[wellformed |-> TRUE, title |-> t, body |-> b] :
        t \in strings \cup {Absent}, b \in strings \cup {Absent}}

\* The bodies sent in the serial runs, and the one sent in the concurrent
\* runs, where responses are not kept and a malformed body leaves no trace.
SeqBodies == JSONBodies({"", "a"})

ConcBodies == {[wellformed |-> TRUE, title |-> "a", body |-> Absent]}

\* c.ShouldBindJSON into a struct {Title string `json:"title"`; Body string
\* `json:"body"`}: an error for malformed JSON, and an absent member leaves
\* the field at its zero value "".
ShouldBindJSON(raw) ==
    [err   |-> ~raw.wellformed,
     Title |-> IF raw.title = Absent THEN "" ELSE raw.title,
     Body  |-> IF raw.body = Absent THEN "" ELSE raw.body]

\* The :id path parameter is text, a sequence of characters.
DigitChars == <<"0", "1", "2", "3", "4", "5", "6", "7", "8", "9">>

IsDigit(c) == \E i \in 1..Len(DigitChars) : DigitChars[i] = c

DigitVal(c) == (CHOOSE i \in 1..Len(DigitChars) : DigitChars[i] = c) - 1

RECURSIVE ParseDigits(_, _)
ParseDigits(s, acc) ==
    IF s = <<>> THEN acc ELSE ParseDigits(Tail(s), 10 * acc + DigitVal(Head(s)))

\* strconv.Atoi: an optional sign, then one or more decimal digits.
Atoi(s) ==
    LET signed == s # <<>> /\ Head(s) \in {"-", "+"}
        digits == IF signed THEN Tail(s) ELSE s
        ok     == digits # <<>> /\ \A i \in 1..Len(digits) : IsDigit(digits[i])
        n      == IF ok THEN ParseDigits(digits, 0) ELSE 0
    IN  [err |-> ~ok, val |-> IF signed /\ Head(s) = "-" THEN 0 - n ELSE n]

\* The :id parameters sent: the empty one, non-numeric ones, signed and
\* zero-padded ones, and every ID that can exist plus one that never does.
SeqIdParams ==
    {<<>>, <<"x">>, <<"-">>, <<"-", "1">>, <<"0", "1">>, <<"1", "x">>}
        \cup {<<DigitChars[i + 1]>> : i \in 0..(MaxPosts + 1)}

ConcIdParams == {<<DigitChars[i + 1]>> : i \in 1..MaxPosts}

\* ------------------------------------------------------------------- state

VARIABLES
    inmemoryPostDB,   \* the global map[int]Post
    idPostCounter,    \* the global counter
    idPostMutex,      \* the process holding the mutex, or 0
    pc,               \* where each request's handler stands
    req,              \* each request: the handler, the parsed :id, the body
    post,             \* each handler's local Post (newPost / post)
    resp,             \* each request's response (kept in the serial runs)
    returnedIDs,      \* the IDs AddPost has returned
    calledAfter,      \* per AddPost call: the IDs returned before the call
    deleted204,       \* the IDs for which DELETE has answered 204
    fatal,            \* the Go runtime has thrown on a concurrent map access
    serial,           \* requests are served one at a time, and observed
    notifiers,        \* PostHandler.notifiers
    variant,          \* which UpdateHandler runs: "part_000" or "lsp"
    idx,              \* the range loop's position in h.notifiers
    invoked,          \* the NotifyPostUpdated calls made: <<index, action>>
    outcome           \* "running", "error" (c.Error; return) or "json200"

crudVars == <<inmemoryPostDB, idPostCounter, idPostMutex, pc, req, post, resp,
              returnedIDs, calledAfter, deleted204, fatal, serial>>

notifyVars == <<notifiers, variant, idx, invoked, outcome>>

vars == <<inmemoryPostDB, idPostCounter, idPostMutex, pc, req, post, resp,
          returnedIDs, calledAfter, deleted204, fatal, serial, notifiers, variant, idx, invoked,
          outcome>>

NoReq == [kind |-> "none", id |-> 0, body |-> Malformed]

NoResp == [status |-> 0, ID |-> 0, Title |-> "", Body |-> "", list |-> <<>>]

\* c.JSON(status, {id, title, body})
PostResp(status, p) ==
    [status |-> status, ID |-> p.ID, Title |-> p.Title, Body |-> p.Body,
     list |-> <<>>]

\* c.AbortWithStatus / c.AbortWithError / c.Status: a status and no body.
StatusResp(status) == [NoResp EXCEPT !.status = status]

\* ---------------------------------------------------------------------- DB

\* DB.GetPostByID
GetPostByID(db, id) ==
    IF id \in DOMAIN db
    THEN [err |-> FALSE, post |-> db[id]]
    ELSE [err |-> TRUE, post |-> ZeroPost]

\* maps.Values: the map's values in the order the iteration happens to take.
MapValues(db) ==
    LET n == Cardinality(DOMAIN db)
    IN  {[i \in 1..n |-> db[f[i]]] :
            f \in {g \in [1..n -> DOMAIN db] :
                      \A i, j \in 1..n : i # j => g[i] # g[j]}}

\* cmp.Compare
Compare(a, b) == IF a < b THEN 0 - 1 ELSE IF a > b THEN 1 ELSE 0

RECURSIVE InsertSorted(_, _)
InsertSorted(x, s) ==
    IF s = <<>> THEN <<x>>
    ELSE IF Compare(x.ID, Head(s).ID) < 0 THEN <<x>> \o s
    ELSE <<Head(s)>> \o InsertSorted(x, Tail(s))

\* slices.SortedFunc(seq, func(p1, p2) int { return cmp.Compare(p1.ID, p2.ID) })
RECURSIVE SortedFunc(_)
SortedFunc(s) ==
    IF s = <<>> THEN <<>> ELSE InsertSorted(Head(s), SortedFunc(Tail(s)))

\* Not the code: GetAllPost without the sort.
GetAllPostUnsorted(vals) == vals

\* DB.GetAllPost, for one iteration order of the map.
GetAllPost(vals) == SortedFunc(vals)

\* Not the code: UpdatePost storing the new title only.
UpdatePostTitleOnly(db, updatePost) ==
    IF updatePost.ID \in DOMAIN db
    THEN [db EXCEPT ![updatePost.ID].Title = updatePost.Title]
    ELSE (updatePost.ID :> updatePost) @@ db

\* DB.UpdatePost: inmemoryPostDB[updatePost.ID] = updatePost, which inserts
\* the key when the map does not hold it.
UpdatePost(db, updatePost) ==
    [i \in DOMAIN db \cup {updatePost.ID} |->
        IF i = updatePost.ID THEN updatePost ELSE db[i]]

\* Not the code: DeletePostByID that removes nothing.
DeletePostByIDNoop(db, id) == db

\* DB.DeletePostByID: delete(inmemoryPostDB, id), a no-op on a missing key.
DeletePostByID(db, id) == [i \in DOMAIN db \ {id} |-> db[i]]

\* ------------------------------------------------------------ CRUD service

InitCrud ==
    /\ inmemoryPostDB = <<>>
    /\ idPostCounter = 0
    /\ idPostMutex = 0
    /\ pc = [p \in Procs |-> "idle"]
    /\ req = [p \in Procs |-> NoReq]
    /\ post = [p \in Procs |-> ZeroPost]
    /\ resp = [p \in Procs |-> NoResp]
    /\ returnedIDs = {}
    /\ calledAfter = [p \in Procs |-> {}]
    /\ deleted204 = {}
    /\ fatal = FALSE

\* What no step of the CRUD service changes.
FrameAddPost == UNCHANGED <<fatal, serial, notifiers, variant, idx, invoked, outcome>>

\* What only the call of AddPost and its return change.
Frame == FrameAddPost /\ UNCHANGED calledAfter

\* A request arrives: gin starts its handler in a goroutine of its own.  In a
\* serial run, only when no other handler is running.
CanStart(p) ==
    /\ ~fatal
    /\ pc[p] = "idle"
    /\ serial => \A q \in Procs : pc[q] = "idle"

\* Handler p is at statement `at`.
At(p, at) == ~fatal /\ pc[p] = at

\* Handler p goes on to statement `next`.
Goto(p, next) == pc' = [pc EXCEPT ![p] = next]

\* The handler of request rq writes response r and returns.  A serial run
\* keeps the request and its response to be looked at, until HandlerReturn;
\* a concurrent run ends the goroutine at once.
Respond(p, rq, r) ==
    IF serial
    THEN /\ Goto(p, "done")
         /\ req' = [req EXCEPT ![p] = rq]
         /\ resp' = [resp EXCEPT ![p] = r]
         /\ UNCHANGED post
    ELSE /\ Goto(p, "idle")
         /\ req' = [req EXCEPT ![p] = NoReq]
         /\ post' = [post EXCEPT ![p] = ZeroPost]
         /\ UNCHANGED resp

\* The AddPost calls that have not yet incremented the counter.
PendingAdds == Cardinality({q \in Procs : pc[q] \in {"add_lock", "add_inc"}})

\* c.Param("id") and strconv.Atoi, common to the three /posts/:id handlers:
\* the request goes on at `next` with the parsed ID, or is answered 400.
ParseIdParam(p, kind, idParam, body, next) ==
    LET id == Atoi(idParam)
        rq == [kind |-> kind, id |-> id.val, body |-> body]
    IN  IF idParam = <<>> \/ id.err
        THEN Respond(p, rq, StatusResp(StatusBadRequest))
        ELSE /\ Goto(p, next)
             /\ req' = [req EXCEPT ![p] = rq]
             /\ UNCHANGED <<post, resp>>

\* NewPostHandler up to the call of db.AddPost.
NewPostBegin(p, bodies) ==
    /\ CanStart(p)
    /\ \E raw \in bodies :
        LET newPostReq == ShouldBindJSON(raw)
            rq == [kind |-> "POST", id |-> 0, body |-> raw]
        IN  IF newPostReq.err
            THEN /\ Respond(p, rq, StatusResp(StatusBadRequest))
                 /\ UNCHANGED calledAfter
            ELSE /\ idPostCounter + PendingAdds < MaxPosts
                 /\ Goto(p, "add_lock")
                 /\ req' = [req EXCEPT ![p] = rq]
                 /\ post' = [post EXCEPT ![p] =
                               [ID |-> 0, Title |-> newPostReq.Title,
                                Body |-> newPostReq.Body]]
                 /\ calledAfter' = [calledAfter EXCEPT ![p] = returnedIDs]
                 /\ UNCHANGED resp
    /\ UNCHANGED <<inmemoryPostDB, idPostCounter, idPostMutex, returnedIDs,
                   deleted204>>
    /\ FrameAddPost

\* Not the code: Lock that does not wait for the mutex to be free.
AddPostLockNoWait(p) ==
    /\ At(p, "add_lock")
    /\ idPostMutex' = p
    /\ Goto(p, "add_inc")
    /\ UNCHANGED <<inmemoryPostDB, idPostCounter, req, post, resp, returnedIDs,
                   deleted204>>
    /\ Frame

\* AddPost: idPostMutex.Lock()
AddPostLock(p) ==
    /\ At(p, "add_lock")
    /\ idPostMutex = 0
    /\ idPostMutex' = p
    /\ Goto(p, "add_inc")
    /\ UNCHANGED <<inmemoryPostDB, idPostCounter, req, post, resp, returnedIDs,
                   deleted204>>
    /\ Frame

\* Not the code: the mutex released right after the increment.
AddPostIncUnlocks(p) ==
    /\ At(p, "add_inc")
    /\ idPostCounter' = idPostCounter + 1
    /\ idPostMutex' = 0
    /\ Goto(p, "add_write")
    /\ UNCHANGED <<inmemoryPostDB, req, post, resp, returnedIDs, deleted204>>
    /\ Frame

\* AddPost: idPostCounter++
AddPostInc(p) ==
    /\ At(p, "add_inc")
    /\ idPostCounter' = idPostCounter + 1
    /\ Goto(p, "add_write")
    /\ UNCHANGED <<inmemoryPostDB, idPostMutex, req, post, resp, returnedIDs,
                   deleted204>>
    /\ Frame

\* AddPost: newPost.ID = idPostCounter; inmemoryPostDB[idPostCounter] = newPost
AddPostWrite(p) ==
    /\ At(p, "add_write")
    /\ LET newPost == [post[p] EXCEPT !.ID = idPostCounter]
       IN  /\ post' = [post EXCEPT ![p] = newPost]
           /\ inmemoryPostDB' =
                [i \in DOMAIN inmemoryPostDB \cup {idPostCounter} |->
                    IF i = idPostCounter THEN newPost ELSE inmemoryPostDB[i]]
    /\ Goto(p, "add_unlock")
    /\ UNCHANGED <<idPostCounter, idPostMutex, req, resp, returnedIDs,
                   deleted204>>
    /\ Frame

\* AddPost: the deferred idPostMutex.Unlock(), run by `return newPost, nil`.
AddPostUnlock(p) ==
    /\ At(p, "add_unlock")
    /\ idPostMutex' = 0
    /\ Goto(p, "add_return")
    /\ UNCHANGED <<inmemoryPostDB, idPostCounter, req, post, resp, returnedIDs,
                   deleted204>>
    /\ Frame

\* AddPost returns to NewPostHandler, which goes on to
\* c.JSON(http.StatusOK, newPostResp).
AddPostReturn(p) ==
    /\ At(p, "add_return")
    /\ returnedIDs' = returnedIDs \cup {post[p].ID}
    /\ calledAfter' = [calledAfter EXCEPT ![p] = {}]
    /\ Respond(p, req[p], PostResp(StatusOK, post[p]))
    /\ UNCHANGED <<inmemoryPostDB, idPostCounter, idPostMutex, deleted204>>
    /\ FrameAddPost

\* GetPostHandler up to the call of db.GetPostByID.
GetPostBegin(p, params) ==
    /\ CanStart(p)
    /\ \E idParam \in params : ParseIdParam(p, "GET", idParam, Malformed, "get_read")
    /\ UNCHANGED <<inmemoryPostDB, idPostCounter, idPostMutex, returnedIDs,
                   deleted204>>
    /\ Frame

\* GetPostHandler: db.GetPostByID and the response.
GetPostRead(p) ==
    /\ At(p, "get_read")
    /\ LET got == GetPostByID(inmemoryPostDB, req[p].id)
       IN  IF got.err
           THEN Respond(p, req[p], StatusResp(StatusNotFound))
           ELSE Respond(p, req[p], PostResp(StatusOK, got.post))
    /\ UNCHANGED <<inmemoryPostDB, idPostCounter, idPostMutex, returnedIDs,
                   deleted204>>
    /\ Frame

\* ListPostHanlder up to the call of db.GetAllPost.
ListPostBegin(p) ==
    /\ CanStart(p)
    /\ req' = [req EXCEPT ![p] = [kind |-> "LIST", id |-> 0, body |-> Malformed]]
    /\ Goto(p, "list_read")
    /\ UNCHANGED <<inmemoryPostDB, idPostCounter, idPostMutex, post, resp,
                   returnedIDs, deleted204>>
    /\ Frame

\* ListPostHanlder: db.GetAllPost, the copy into listPostDataResps, c.JSON.
ListPostRead(p) ==
    /\ At(p, "list_read")
    /\ \E vals \in MapValues(inmemoryPostDB) :
          Respond(p, req[p],
                  [NoResp EXCEPT !.status = StatusOK, !.list = GetAllPost(vals)])
    /\ UNCHANGED <<inmemoryPostDB, idPostCounter, idPostMutex, returnedIDs,
                   deleted204>>
    /\ Frame

\* UpdatePostHanlder up to the call of db.GetPostByID.
UpdatePostBegin(p, params, bodies) ==
    /\ CanStart(p)
    /\ \E idParam \in params, raw \in bodies :
          ParseIdParam(p, "PATCH", idParam, raw, "upd_get")
    /\ UNCHANGED <<inmemoryPostDB, idPostCounter, idPostMutex, returnedIDs,
                   deleted204>>
    /\ Frame

\* Not the code: UpdatePostHanlder without its check of the bind error.
UpdatePostGetIgnoresBindError(p) ==
    /\ At(p, "upd_get")
    /\ LET got == GetPostByID(inmemoryPostDB, req[p].id)
           updatePostReq == ShouldBindJSON(req[p].body)
       IN  IF got.err
           THEN Respond(p, req[p], StatusResp(StatusNotFound))
           ELSE /\ post' = [post EXCEPT ![p] =
                              [got.post EXCEPT !.Body = updatePostReq.Body,
                                               !.Title = updatePostReq.Title]]
                /\ Goto(p, "upd_write")
                /\ UNCHANGED <<req, resp>>
    /\ UNCHANGED <<inmemoryPostDB, idPostCounter, idPostMutex, returnedIDs,
                   deleted204>>
    /\ Frame

\* UpdatePostHanlder: db.GetPostByID, then c.ShouldBindJSON and the two
\* assignments to post.
UpdatePostGet(p) ==
    /\ At(p, "upd_get")
    /\ LET got == GetPostByID(inmemoryPostDB, req[p].id)
           updatePostReq == ShouldBindJSON(req[p].body)
       IN  IF got.err
           THEN Respond(p, req[p], StatusResp(StatusNotFound))
           ELSE IF updatePostReq.err
           THEN Respond(p, req[p], StatusResp(StatusBadRequest))
           ELSE /\ post' = [post EXCEPT ![p] =
                              [got.post EXCEPT !.Body = updatePostReq.Body,
                                               !.Title = updatePostReq.Title]]
                /\ Goto(p, "upd_write")
                /\ UNCHANGED <<req, resp>>
    /\ UNCHANGED <<inmemoryPostDB, idPostCounter, idPostMutex, returnedIDs,
                   deleted204>>
    /\ Frame

\* UpdatePostHanlder: db.UpdatePost and c.JSON(http.StatusOK, resp).
UpdatePostWrite(p) ==
    /\ At(p, "upd_write")
    /\ inmemoryPostDB' = UpdatePost(inmemoryPostDB, post[p])
    /\ Respond(p, req[p], PostResp(StatusOK, post[p]))
    /\ UNCHANGED <<idPostCounter, idPostMutex, returnedIDs, deleted204>>
    /\ Frame

\* DeletePostHandler up to the call of db.GetPostByID.
DeletePostBegin(p, params) ==
    /\ CanStart(p)
    /\ \E idParam \in params :
          ParseIdParam(p, "DELETE", idParam, Malformed, "del_get")
    /\ UNCHANGED <<inmemoryPostDB, idPostCounter, idPostMutex, returnedIDs,
                   deleted204>>
    /\ Frame

\* Not the code: DeletePostHandler without its check of ErrNotFound.
DeletePostGetNoCheck(p) ==
    /\ At(p, "del_get")
    /\ Goto(p, "del_delete")
    /\ UNCHANGED <<inmemoryPostDB, idPostCounter, idPostMutex, req, post, resp,
                   returnedIDs, deleted204>>
    /\ Frame

\* DeletePostHandler: db.GetPostByID.
DeletePostGet(p) ==
    /\ At(p, "del_get")
    /\ IF GetPostByID(inmemoryPostDB, req[p].id).err
       THEN Respond(p, req[p], StatusResp(StatusNotFound))
       ELSE /\ Goto(p, "del_delete")
            /\ UNCHANGED <<req, post, resp>>
    /\ UNCHANGED <<inmemoryPostDB, idPostCounter, idPostMutex, returnedIDs,
                   deleted204>>
    /\ Frame

\* DeletePostHandler: db.DeletePostByID and c.Status(http.StatusNoContent).
DeletePostDelete(p) ==
    /\ At(p, "del_delete")
    /\ inmemoryPostDB' = DeletePostByID(inmemoryPostDB, req[p].id)
    /\ deleted204' = deleted204 \cup {req[p].id}
    /\ Respond(p, req[p], StatusResp(StatusNoContent))
    /\ UNCHANGED <<idPostCounter, idPostMutex, returnedIDs>>
    /\ Frame

\* A serial run: the handler function returns, the request is over and its
\* goroutine's locals are gone.
HandlerReturn(p) ==
    /\ At(p, "done")
    /\ Goto(p, "idle")
    /\ req' = [req EXCEPT ![p] = NoReq]
    /\ post' = [post EXCEPT ![p] = ZeroPost]
    /\ resp' = [resp EXCEPT ![p] = NoResp]
    /\ UNCHANGED <<inmemoryPostDB, idPostCounter, idPostMutex, returnedIDs,
                   deleted204>>
    /\ Frame

\* The statements at which a handler writes, or reads, the global map.
MapWriters == {"add_write", "upd_write", "del_delete"}

MapReaders == {"get_read", "list_read", "upd_get", "del_get"}

\* Two handlers stand at accesses of the map and one of the accesses writes:
\* nothing orders the two, a data race.
MapRace(p, q) ==
    /\ p # q
    /\ pc[p] \in MapWriters
    /\ pc[q] \in MapWriters \cup MapReaders

\* A racing map access: besides taking effect in either order (the steps
\* above), the Go runtime may detect it and throw "fatal error: concurrent
\* map writes" (or "concurrent map read and map write"), which ends the
\* program.
ConcurrentMapFatal ==
    /\ ~fatal
    /\ \E p, q \in Procs : MapRace(p, q)
    /\ fatal' = TRUE
    /\ UNCHANGED <<inmemoryPostDB, idPostCounter, idPostMutex, pc, req, post,
                   resp, returnedIDs, calledAfter, deleted204, serial>>
    /\ UNCHANGED notifyVars

\* The notifier demo's variables while the CRUD service runs: the two are
\* separate programs.
IdleNotify ==
    /\ notifiers = <<>>
    /\ variant = "part_000"
    /\ idx = 1
    /\ invoked = <<>>
    /\ outcome = "idle"

InitSeq == InitCrud /\ IdleNotify /\ serial = TRUE

\* The handlers of the five routes main registers, one request at a time.
NextSeq ==
    \E p \in Procs :
        \/ NewPostBegin(p, SeqBodies)
        \/ AddPostLock(p)
        \/ AddPostInc(p)
        \/ AddPostWrite(p)
        \/ AddPostUnlock(p)
        \/ AddPostReturn(p)
        \/ GetPostBegin(p, SeqIdParams)
        \/ GetPostRead(p)
        \/ ListPostBegin(p)
        \/ ListPostRead(p)
        \/ UpdatePostBegin(p, SeqIdParams, SeqBodies)
        \/ UpdatePostGet(p)
        \/ UpdatePostWrite(p)
        \/ DeletePostBegin(p, SeqIdParams)
        \/ DeletePostGet(p)
        \/ DeletePostDelete(p)
        \/ HandlerReturn(p)

SpecSeq == InitSeq /\ [][NextSeq]_vars

InitConc == InitCrud /\ IdleNotify /\ serial = FALSE

\* The same handlers, each request in a goroutine of its own.
NextConc ==
    \/ \E p \in Procs :
        \/ NewPostBegin(p, ConcBodies)
        \/ AddPostLock(p)
        \/ AddPostInc(p)
        \/ AddPostWrite(p)
        \/ AddPostUnlock(p)
        \/ AddPostReturn(p)
        \/ GetPostBegin(p, ConcIdParams)
        \/ GetPostRead(p)
        \/ ListPostBegin(p)
        \/ ListPostRead(p)
        \/ UpdatePostBegin(p, ConcIdParams, ConcBodies)
        \/ UpdatePostGet(p)
        \/ UpdatePostWrite(p)
        \/ DeletePostBegin(p, ConcIdParams)
        \/ DeletePostGet(p)
        \/ DeletePostDelete(p)
    \/ ConcurrentMapFatal

SpecConc == InitConc /\ [][NextConc]_vars

\* ----------------------------------------------------------- notifier demo

ActionUpdate == "update"

NotifierTypes == {"EmailNotifier", "LineNotifier"}

\* A notifier: its concrete type, and whether the service it sends through
\* (EmailService.SendEmail, the line service) returns an error.
Notifiers == [type : NotifierTypes, fails : BOOLEAN]

\* The argument lists of NewPostHandler(notifiers ...PostUpdateNotifier).
NotifierLists == UNION {[1..n -> Notifiers] : n \in 0..MaxNotifiers}

\* notifier.NotifyPostUpdated(post, action): the error of the send, or nil.
NotifyPostUpdated(notifier, action) == [err |-> notifier.fails]

InitNotify ==
    /\ InitCrud
    /\ serial = FALSE
    /\ notifiers \in NotifierLists
    /\ variant = "part_000"
    /\ idx = 1
    /\ invoked = <<>>
    /\ outcome = "idle"

\* PUT /posts/:id arrives at the UpdateHandler of variant v: post := Post{}
\* and the range loop starts.
UpdateHandlerBegin(v) ==
    /\ outcome = "idle"
    /\ variant' = v
    /\ idx' = 1
    /\ invoked' = <<>>
    /\ outcome' = "running"
    /\ UNCHANGED notifiers
    /\ UNCHANGED crudVars

\* The call notifier.NotifyPostUpdated(post, ActionUpdate) of a loop body and
\* its error check: c.Error(err); return.
CallNotifier ==
    /\ invoked' = Append(invoked, [index |-> idx, action |-> ActionUpdate])
    /\ IF NotifyPostUpdated(notifiers[idx], ActionUpdate).err
       THEN /\ outcome' = "error"
            /\ UNCHANGED idx
       ELSE /\ idx' = idx + 1
            /\ UNCHANGED outcome

\* Not the code: the loop going on after a notifier's error.
UpdateHandlerNotifyContinues ==
    /\ variant = "part_000"
    /\ outcome = "running"
    /\ idx <= Len(notifiers)
    /\ invoked' = Append(invoked, [index |-> idx, action |-> ActionUpdate])
    /\ idx' = idx + 1
    /\ UNCHANGED <<outcome, notifiers, variant>>
    /\ UNCHANGED crudVars

\* part_000, one iteration of `for _, notifier := range h.notifiers`.
UpdateHandlerNotify ==
    /\ variant = "part_000"
    /\ outcome = "running"
    /\ idx <= Len(notifiers)
    /\ CallNotifier
    /\ UNCHANGED <<notifiers, variant>>
    /\ UNCHANGED crudVars

\* lsp.go, one iteration: the type switch calls the notifier only in
\* `case *EmailNotifier`, and any other type falls through the switch.
LspUpdateHandlerNotify ==
    /\ variant = "lsp"
    /\ outcome = "running"
    /\ idx <= Len(notifiers)
    /\ IF notifiers[idx].type = "EmailNotifier"
       THEN CallNotifier
       ELSE /\ idx' = idx + 1
            /\ UNCHANGED <<invoked, outcome>>
    /\ UNCHANGED <<notifiers, variant>>
    /\ UNCHANGED crudVars

\* After the loop: c.JSON(200, gin.H{"status": "post updated"}).
UpdateHandlerJSON ==
    /\ outcome = "running"
    /\ idx > Len(notifiers)
    /\ outcome' = "json200"
    /\ UNCHANGED <<notifiers, variant, idx, invoked>>
    /\ UNCHANGED crudVars

\* The handler has returned; the next request can come.
UpdateHandlerReturn ==
    /\ outcome \in {"error", "json200"}
    /\ outcome' = "idle"
    /\ idx' = 1
    /\ invoked' = <<>>
    /\ UNCHANGED <<notifiers, variant>>
    /\ UNCHANGED crudVars

NextNotify ==
    \/ UpdateHandlerBegin("part_000")
    \/ UpdateHandlerBegin("lsp")
    \/ UpdateHandlerNotify
    \/ LspUpdateHandlerNotify
    \/ UpdateHandlerJSON
    \/ UpdateHandlerReturn

SpecNotify == InitNotify /\ [][NextNotify]_vars

\* ------------------------------------------------------------------ claims

\* Handler p takes a step.
Steps(p) == pc'[p] # pc[p]

\* The value a bound struct field takes from a JSON member.
FieldOf(member) == IF member = Absent THEN "" ELSE member

\* The requests that hold an ID AddPost has assigned and not yet returned.
InHand == {p \in Procs : pc[p] \in {"add_unlock", "add_return"}}

\* The IDs AddPost has given out: returned, or in hand.
GivenOut == returnedIDs \cup {post[p].ID : p \in InHand}

\* C1: under any interleaving of concurrent creates and deletes, the ID an
\* AddPost call holds is strictly greater than every ID returned before the
\* call began and is held or was returned by no other create; the IDs given
\* out are 1, 2, ... up to the counter, deleted or not; every post is stored
\* under its own ID, and every ID given out is in the store unless a DELETE
\* has removed it.
C1_AddPostIDsStrictlyIncrease ==
    /\ \A p \in InHand :
          /\ \A id \in calledAfter[p] : id < post[p].ID
          /\ post[p].ID \notin returnedIDs
          /\ \A q \in InHand \ {p} : post[q].ID # post[p].ID
    /\ GivenOut =
          IF \E p \in Procs : pc[p] = "add_write"
          THEN 1..(idPostCounter - 1) ELSE 1..idPostCounter
    /\ GivenOut \subseteq DOMAIN inmemoryPostDB \cup deleted204
    /\ \A id \in DOMAIN inmemoryPostDB :
          /\ inmemoryPostDB[id].ID = id
          /\ id \in GivenOut
    /\ deleted204 \subseteq GivenOut

\* Two creates overlap: the one that got ID 2 has returned, the one that got
\* ID 1 is about to, and a DELETE has already removed post 1.
C1_Witness ==
    \E p \in Procs :
        /\ pc[p] = "add_return"
        /\ post[p].ID = 1
        /\ returnedIDs = {2}
        /\ 1 \in deleted204
        /\ DOMAIN inmemoryPostDB = {2}

\* C2: GET /posts answers 200 with exactly the posts in the store, each once,
\* in strictly ascending ID order, whatever order the map iteration takes.
C2_ListSortedAndExact ==
    \A p \in Procs :
        (pc[p] = "done" /\ req[p].kind = "LIST") =>
            LET list == resp[p].list
            IN  /\ resp[p].status = StatusOK
                /\ Len(list) = Cardinality(DOMAIN inmemoryPostDB)
                /\ \A i, j \in 1..Len(list) : i < j => list[i].ID < list[j].ID
                /\ \A i \in 1..Len(list) :
                      /\ list[i].ID \in DOMAIN inmemoryPostDB
                      /\ list[i] = inmemoryPostDB[list[i].ID]
                /\ \A id \in DOMAIN inmemoryPostDB :
                      \E i \in 1..Len(list) : list[i].ID = id

\* GET /posts has listed a store of two posts that differ in their titles.
C2_Witness ==
    \E p \in Procs :
        /\ pc[p] = "done"
        /\ req[p].kind = "LIST"
        /\ Len(resp[p].list) = 2
        /\ resp[p].list[1].Title # resp[p].list[2].Title

\* C3: served one at a time, a GET, PATCH or DELETE of a numeric ID that is
\* not in the store is answered 404 and changes neither store nor counter.
C3_MissingIDAnswered404 ==
    [][\A p \in Procs :
          (/\ pc[p] \in {"get_read", "upd_get", "del_get"}
           /\ req[p].id \notin DOMAIN inmemoryPostDB
           /\ Steps(p))
          => /\ pc'[p] = "done"
             /\ resp'[p].status = StatusNotFound
             /\ inmemoryPostDB' = inmemoryPostDB
             /\ idPostCounter' = idPostCounter]_vars

\* A PATCH of an ID that is not in the (non-empty) store has been answered 404.
C3_Witness ==
    \E p \in Procs :
        /\ pc[p] = "done"
        /\ req[p].kind = "PATCH"
        /\ req[p].body.wellformed
        /\ resp[p].status = StatusNotFound
        /\ req[p].id \notin DOMAIN inmemoryPostDB
        /\ inmemoryPostDB # <<>>

\* C4: served one at a time, once DELETE has answered 204 for an ID, that ID
\* is never in the store again, every later GET, PATCH or DELETE of it is
\* answered 404 and no later GET /posts lists it.
C4_DeletedStaysDeleted ==
    [][/\ deleted204' \cap DOMAIN inmemoryPostDB' = {}
       /\ \A p \in Procs :
            (pc'[p] = "done" /\ Steps(p)) =>
               /\ (/\ req[p].kind \in {"GET", "PATCH", "DELETE"}
                   /\ pc[p] # "idle"
                   /\ req[p].id \in deleted204)
                  => resp'[p].status = StatusNotFound
               /\ req[p].kind = "LIST"
                  => \A i \in 1..Len(resp'[p].list) :
                        resp'[p].list[i].ID \notin deleted204]_vars

\* A GET of a deleted ID has been answered 404 after a later create.
C4_Witness ==
    \E p \in Procs :
        /\ pc[p] = "done"
        /\ req[p].kind = "GET"
        /\ req[p].id \in deleted204
        /\ resp[p].status = StatusNotFound
        /\ inmemoryPostDB # <<>>

\* The request of handler p has a malformed body and p is at the step that
\* binds it: the start of a POST, or the lookup-and-bind of a PATCH.
BindsMalformed(p) ==
    /\ Steps(p)
    /\ ~req'[p].body.wellformed
    /\ \/ pc[p] = "idle" /\ req'[p].kind = "POST"
       \/ pc[p] = "upd_get"

\* C5 as stated: every POST, and every PATCH of a numeric ID, in the store or
\* not, with a malformed body is answered 400 and changes neither store nor
\* counter.
C5_MalformedAlways400 ==
    [][\A p \in Procs :
          BindsMalformed(p)
          => /\ pc'[p] = "done"
             /\ resp'[p].status = StatusBadRequest
             /\ inmemoryPostDB' = inmemoryPostDB
             /\ idPostCounter' = idPostCounter]_vars

\* C5 as amended: a malformed POST is answered 400; a malformed PATCH of a
\* numeric ID is answered 400 when the ID is in the store and 404 when it is
\* not; none of them changes store or counter.
C5_Malformed400Or404 ==
    [][\A p \in Procs :
          BindsMalformed(p)
          => /\ pc'[p] = "done"
             /\ resp'[p].status =
                  IF pc[p] = "upd_get" /\ req[p].id \notin DOMAIN inmemoryPostDB
                  THEN StatusNotFound ELSE StatusBadRequest
             /\ inmemoryPostDB' = inmemoryPostDB
             /\ idPostCounter' = idPostCounter]_vars

\* A malformed PATCH of an ID that is in the store has been answered 400.
C5_Witness ==
    \E p \in Procs :
        /\ pc[p] = "done"
        /\ req[p].kind = "PATCH"
        /\ ~req[p].body.wellformed
        /\ req[p].id \in DOMAIN inmemoryPostDB
        /\ resp[p].status = StatusBadRequest

\* C6: in part_000 the notifiers are called in registration order, each with
\* action "update", none after one that failed; and once the handler is over
\* the 200 response has been sent exactly when every registered notifier was
\* called and none returned an error.
C6_AbortOnFirstError ==
    (variant = "part_000" /\ outcome # "idle") =>
        /\ Len(invoked) <= Len(notifiers)
        /\ \A i \in 1..Len(invoked) :
              invoked[i] = [index |-> i, action |-> ActionUpdate]
        /\ \A i \in 1..Len(invoked) :
              notifiers[i].fails => i = Len(invoked)
        /\ outcome = "running" =>
              \A i \in 1..Len(invoked) : ~notifiers[i].fails
        /\ outcome = "error" =>
              invoked # <<>> /\ notifiers[Len(invoked)].fails
        /\ outcome = "json200" <=>
              /\ outcome # "running"
              /\ Len(invoked) = Len(notifiers)
              /\ \A i \in 1..Len(notifiers) : ~notifiers[i].fails

\* The first of two notifiers failed: the second was not called, no 200.
C6_Witness ==
    /\ variant = "part_000"
    /\ outcome = "error"
    /\ Len(notifiers) = 2
    /\ Len(invoked) = 1

\* C7: in lsp.go every registered notifier, whatever its type, is called
\* unless an earlier one failed, and the 200 response is sent only if no
\* registered notifier fails.
C7_LspNotifiesAll ==
    (variant = "lsp" /\ outcome \in {"error", "json200"}) =>
        /\ outcome = "json200" =>
              /\ Len(invoked) = Len(notifiers)
              /\ \A i \in 1..Len(notifiers) : ~notifiers[i].fails
        /\ outcome = "error" =>
              \A i \in 1..Len(notifiers) :
                  (\A j \in 1..(i - 1) : ~notifiers[j].fails)
                  => \E k \in 1..Len(invoked) : invoked[k].index = i

\* C8: served one at a time, a well-formed PATCH of an ID in the store is
\* answered 200 with that ID and the request's title and body (an absent
\* member giving ""), replaces exactly that post's title and body, leaves the
\* stored IDs, the other posts and the counter alone, and a GET of the ID
\* would answer with the same values.
C8_PatchReplacesOnlyThatPost ==
    [][\A p \in Procs :
          /\ (/\ pc[p] = "upd_get"
              /\ Steps(p)
              /\ req[p].id \in DOMAIN inmemoryPostDB
              /\ req[p].body.wellformed)
             => /\ pc'[p] = "upd_write"
                /\ inmemoryPostDB' = inmemoryPostDB
                /\ idPostCounter' = idPostCounter
          /\ (pc[p] = "upd_write" /\ Steps(p))
             => LET id == req[p].id
                    new == [ID |-> id, Title |-> FieldOf(req[p].body.title),
                            Body |-> FieldOf(req[p].body.body)]
                IN  /\ pc'[p] = "done"
                    /\ resp'[p] = PostResp(StatusOK, new)
                    /\ DOMAIN inmemoryPostDB' = DOMAIN inmemoryPostDB
                    /\ inmemoryPostDB'[id] = new
                    /\ \A i \in DOMAIN inmemoryPostDB \ {id} :
                          inmemoryPostDB'[i] = inmemoryPostDB[i]
                    /\ idPostCounter' = idPostCounter
                    /\ ~GetPostByID(inmemoryPostDB', id).err
                    /\ PostResp(StatusOK, GetPostByID(inmemoryPostDB', id).post)
                          = resp'[p]]_vars

\* A PATCH without a "title" member has emptied the title of one of two posts.
C8_Witness ==
    \E p \in Procs :
        /\ pc[p] = "done"
        /\ req[p].kind = "PATCH"
        /\ resp[p].status = StatusOK
        /\ req[p].body.title = Absent
        /\ req[p].body.body = "a"
        /\ inmemoryPostDB[req[p].id].Title = ""
        /\ Cardinality(DOMAIN inmemoryPostDB) = 2

\* The statements of AddPost between Lock and Unlock.
AddPostCritical == {"add_inc", "add_write", "add_unlock"}

\* C9: the mutex excludes AddPost critical sections from each other, and
\* only a handler inside AddPost ever holds it: no get, list, update or
\* delete acquires it.
C9_MutexGuardsOnlyAddPost ==
    /\ \A p, q \in Procs :
          (pc[p] \in AddPostCritical /\ pc[q] \in AddPostCritical) => p = q
    /\ \A p \in Procs : pc[p] \in AddPostCritical <=> idPostMutex = p
    /\ idPostMutex # 0 => idPostMutex \in Procs

\* An UpdatePost is at its write of the map while another request is inside
\* AddPost's critical section at its write of the map.
C9_Witness ==
    \E p, q \in Procs :
        /\ pc[p] = "add_write"
        /\ idPostMutex = p
        /\ pc[q] = "upd_write"
        /\ MapRace(p, q)

\* An UpdatePost and a DeletePostByID are at their writes of the map at once.
C9_UpdateDeleteRace ==
    \E p, q \in Procs :
        /\ pc[p] = "upd_write"
        /\ pc[q] = "del_delete"
        /\ idPostMutex = 0

\* The first half of C10 alone: an ID for which DELETE has answered 204 is
\* not in the store.
C10_DeletedStaysAbsent ==
    \A id \in deleted204 : id \notin DOMAIN inmemoryPostDB

\* C10: under any interleaving of PATCH and DELETE, an ID for which DELETE
\* has answered 204 is not in the store, and no DELETE is about to answer 204
\* for an ID another DELETE has already answered 204 for.
C10_PatchNeverAddsBack ==
    /\ C10_DeletedStaysAbsent
    /\ \A p \in Procs : pc[p] = "del_delete" => req[p].id \notin deleted204

====
